---- MODULE Spec2Model ----
(***************************************************************************)
(* Model of docspace (src/docspace/app.py): the import / rescan_all        *)
(* pipeline over the archive directory, the flat text cache below _text,   *)
(* the .md5sums.txt ledger, and the two path-mapping helpers.              *)
(*                                                                         *)
(* A file name is a sequence of one-character strings, a path a sequence   *)
(* of file names; the text of a file is a sequence of lines (strings).     *)
(***************************************************************************)
EXTENDS Integers, Sequences, FiniteSets, TLC

VARIABLES
    docs,       \* files under data_dir outside _text: relative path -> content id
    texts,      \* files under text_dir: relative path -> lines (ledger included)
    pc,         \* position of the running command
    mode,       \* which command runs get_content / write_content_for_file
    queue,      \* import_files: the file_paths not yet visited
    cur,        \* the file being processed: [name, c, root]
    content,    \* the text get_content has produced so far
    target,     \* the archive path handed to write_content_for_file
    todo,       \* rescan_all: the pathlist entries not yet visited
    skipped,    \* files echoed as "is already imported, skipping!" by this command
    status,     \* how the last command ended / what it is doing
    tmpExists,  \* process_pdf: the TemporaryDirectory exists
    tmpFiles,   \* process_pdf: page images saved in the temporary directory
    ocrIdx,     \* process_pdf: number of page images already OCRed
    ocrExit,    \* exit status of the last tesseract process of this command
    answer,     \* rescan_all: what click.confirm returned
    pre,        \* docs and texts as they were when the current file was taken up
    pin,        \* path-mapping check: the input path
    pout,       \* path-mapping check: result of the first mapping
    pback,      \* path-mapping check: result of mapping back
    pstage      \* path-mapping check: position

vars == <<docs, texts, pc, mode, queue, cur, content, target, todo, skipped,
          status, tmpExists, tmpFiles, ocrIdx, ocrExit, answer, pre,
          pin, pout, pback, pstage>>

pipeVars == <<docs, texts, pc, mode, queue, cur, content, target, todo, skipped,
              status, tmpExists, tmpFiles, ocrIdx, ocrExit, answer, pre>>

pathVars == <<pin, pout, pback, pstage>>

----------------------------------------------------------------------------
(* Bounds of the model *)

MaxDocs == 3        \* import commands start only while the archive holds fewer documents
MaxBatch == 2       \* longest file_paths tuple handed to import
MaxPathLen == 2     \* most components of a path drawn for the path-mapping check
MaxNameLen == 3     \* longest file name drawn for the path-mapping check

----------------------------------------------------------------------------
(* Strings and pathlib *)

Range(s) == {s[i] : i \in 1..Len(s)}

Max(S) == CHOOSE x \in S : \A y \in S : y <= x

Min(S) == CHOOSE x \in S : \A y \in S : x <= y

DOT == "."

\* str.rfind('.') + 1, so 0 when there is no dot
RFindDot(n) ==
    LET D == {i \in 1..Len(n) : n[i] = DOT}
    IN  IF D = {} THEN 0 ELSE Max(D)

\* PurePath.suffix
Suffix(n) ==
    LET i == RFindDot(n)
    IN  IF 1 < i /\ i < Len(n) THEN SubSeq(n, i, Len(n)) ELSE <<>>

\* PurePath.stem
Stem(n) ==
    LET i == RFindDot(n)
    IN  IF 1 < i /\ i < Len(n) THEN SubSeq(n, 1, i - 1) ELSE n

\* str.lstrip('.')
LStripDots(n) ==
    LET K == {i \in 1..Len(n) : n[i] # DOT}
    IN  IF K = {} THEN <<>> ELSE SubSeq(n, Min(K), Len(n))

\* ''.join(PurePath.suffixes)
JoinedSuffixes(n) ==
    IF n # <<>> /\ n[Len(n)] = DOT THEN <<>>
    ELSE LET m == LStripDots(n)
             D == {i \in 1..Len(m) : m[i] = DOT}
         IN  IF D = {} THEN <<>> ELSE SubSeq(m, Min(D), Len(m))

\* PurePath.with_suffix('') on a one-component path
WithSuffixEmpty(n) ==
    SubSeq(n, 1, Len(n) - Len(Suffix(n)))

DigitChar == <<"0", "1", "2", "3", "4", "5", "6", "7", "8", "9">>

RECURSIVE Dec(_)
\* str(counter) inside the f-string
Dec(k) ==
    IF k < 10 THEN <<DigitChar[k + 1]>>
    ELSE Dec(k \div 10) \o <<DigitChar[(k % 10) + 1]>>

\* the anchor of an absolute path
SLASH == <<"/">>

IsAbs(p) == p # <<>> /\ p[1] = SLASH

\* Path.joinpath(a, b): an absolute b replaces a
JoinPath(a, b) == IF IsAbs(b) THEN b ELSE a \o b

\* PurePath.name
Name(p) == p[Len(p)]

\* f'{path}{suffix}': the characters land in the last component
PathPlus(p, sfx) == [p EXCEPT ![Len(p)] = @ \o sfx]

----------------------------------------------------------------------------
(* Config *)

text_suffix == <<".", "t", "x", "t">>

TEXTNAME == <<"_", "t", "e", "x", "t">>

data_dir == <<SLASH, <<"~">>, <<"d", "o", "c", "s", "p", "a", "c", "e">>>>

text_dir == JoinPath(data_dir, <<TEXTNAME>>)

\* md5sum_file, relative to text_dir
md5sum_file == <<<<".", "m", "d", "5", "s", "u", "m", "s", ".", "t", "x", "t">>>>

\* the ledger's key in texts
LEDGER == md5sum_file

\* Config.setup with the ledger opened for writing instead of touched
setup_truncate(t) == (LEDGER :> <<>>) @@ t

\* Config.setup, seen from the text directory: the ledger is touched if missing
setup(t) == IF LEDGER \in DOMAIN t THEN t ELSE (LEDGER :> <<>>) @@ t

----------------------------------------------------------------------------
(* The files of the environment: content ids and what the external tools   *)
(* make of them                                                            *)

Contents == {"T1", "T2", "M1", "P1", "D1", "Z1"}

\* magic.from_file(path, mime=True)
MimeOf(c) ==
    CASE c \in {"T1", "T2", "M1"} -> "text/plain"
      [] c = "P1" -> "image/png"
      [] c = "D1" -> "application/pdf"
      [] OTHER -> "application/gzip"

\* hashlib.md5 over the bytes of the file
hexdigest(c) ==
    CASE c = "T1" -> "md5(T1)"
      [] c = "T2" -> "md5(T2)"
      [] c = "M1" -> "md5(M1)"
      [] c = "P1" -> "md5(P1)"
      [] c = "D1" -> "md5(D1)"
      [] OTHER -> "md5(Z1)"

\* f.read() of a text file; M1 is a text file that lists the digest of T1
get_txt_content(c) ==
    CASE c = "T1" -> <<"text of T1">>
      [] c = "T2" -> <<"text of T2">>
      [] OTHER -> <<hexdigest("T1")>>

\* pdf2image.convert_from_path: the page images, in page order
convert_from_path(c) == IF c = "D1" THEN <<"D1.page0", "D1.page1">> ELSE <<>>

\* what tesseract prints for an image
tesseract_stdout(img) ==
    CASE img = "P1" -> "ocr of P1"
      [] img = "D1.page0" -> "ocr of D1.page0"
      [] img = "D1.page1" -> "ocr of D1.page1"
      [] OTHER -> "ocr"

NA == <<"a", ".", "t">>

NB == <<"a", ".", "t", ".", "g">>

NS == <<"s", ".", "p">>

NR == <<"r", ".", "d">>

NM == <<".", "m", "d", "5", "s", "u", "m", "s">>

SUB == <<"s", "u", "b">>

File(n, c) == [name |-> n, c |-> c, root |-> FALSE]

\* files outside the archive that the user may name on the command line
ExternalFiles ==
    {File(NA, "T1"), File(NA, "T2"), File(NS, "P1"), File(NR, "D1"),
     File(NB, "Z1"), File(NM, "M1")}

\* documents the user has copied below the archive root by hand
InitialArchives == {<<>>, (<<SUB, NA>> :> "T2")}

\* the text artifact of o.t, a document the user has since removed by hand
STALE == <<<<"o", ".", "t", ".", "t", "x", "t">>>>

\* the text cache found at start: fresh for the empty archive; the hand-filled
\* archive has been in use, and the artifact of a removed document is left
InitialCache(d) ==
    IF d = <<>> THEN <<>> ELSE (STALE :> <<"text of o.t">>)

NoFile == [name |-> <<>>, c |-> "none", root |-> FALSE]

NoSnap == [docs |-> <<>>, texts |-> <<>>]

----------------------------------------------------------------------------
(* Helpers of the pipeline *)

\* the files a relative path of the archive root is a directory for
IsDir(d, p) == \E q \in DOMAIN d : Len(q) > Len(p) /\ SubSeq(q, 1, Len(p)) = p

\* destination.is_dir() in place of destination.exists()
ExistsDirOnly(d, t, n) ==
    \/ IsDir(d, <<n>>)
    \/ (n = TEXTNAME /\ t # <<>>)

\* destination.exists() for data_dir / n
Exists(d, t, n) ==
    \/ <<n>> \in DOMAIN d
    \/ IsDir(d, <<n>>)
    \/ (n = TEXTNAME /\ t # <<>>)

\* the candidate names of import_file's while loop: counter 0 is file_path.name
Candidate(n, counter) ==
    IF counter = 0 THEN n
    ELSE Stem(n) \o <<"_">> \o Dec(counter) \o JoinedSuffixes(n)

RECURSIVE FreeName(_, _, _, _)
\* import_file's while loop: the first candidate that does not exist
FreeName(d, t, n, counter) ==
    IF Exists(d, t, Candidate(n, counter))
    THEN FreeName(d, t, n, counter + 1)
    ELSE Candidate(n, counter)

\* import_file without the while loop: always file_path.name
DestinationNoLoop(d, t, n) == n

\* import_file: the file name the copy is stored under
Destination(d, t, n) == FreeName(d, t, n, 0)

\* write_content_for_file: text_path, relative to text_dir
TextPathFor(source_file) == <<Name(source_file) \o text_suffix>>

\* the argument of get_md5sum: a Path with its bytes, or a plain str
PathArg(c) == [ispath |-> TRUE, c |-> c]

StrArg(n) == [ispath |-> FALSE, c |-> "none"]

\* get_md5sum: a str has no open(), which raises AttributeError
get_md5sum(f) ==
    IF f.ispath THEN [raised |-> FALSE, sum |-> hexdigest(f.c)]
    ELSE [raised |-> TRUE, sum |-> ""]

\* is_not_imported, on the lines of the ledger and the bytes of the file
is_not_imported(lines, c) == get_md5sum(PathArg(c)).sum \notin Range(lines)

\* add_md5sum, on the lines of the ledger
add_md5sum(lines, f) ==
    LET r == get_md5sum(f)
    IN  IF r.raised THEN [raised |-> TRUE, lines |-> lines]
        ELSE [raised |-> FALSE, lines |-> Append(lines, r.sum)]

\* run_tesseract on subprocess.run without check: a failed run yields no text
run_tesseract_unchecked(img, exit) ==
    IF exit = 0 THEN [raised |-> FALSE, out |-> <<tesseract_stdout(img)>>]
    ELSE [raised |-> FALSE, out |-> <<>>]

\* run_tesseract: subprocess.check_output raises on a non-zero exit status
run_tesseract(img, exit) ==
    IF exit = 0 THEN [raised |-> FALSE, out |-> <<tesseract_stdout(img)>>]
    ELSE [raised |-> TRUE, out |-> <<>>]

\* rescan_all with the result of click.confirm ignored
proceeds_always(ans) == TRUE

\* click.confirm(..., default=False): rescan_all goes on only after a yes
proceeds(ans) == ans = "yes"

\* what the user can answer at the prompt; "" is the bare return key
Answers == {"yes", "no", ""}

\* Path(data_dir).glob('**/*') and Path(text_dir).glob('**/*'), relative to data_dir
GlobData(d, t) ==
    DOMAIN d
    \cup UNION {{SubSeq(q, 1, k) : k \in 1..(Len(q) - 1)} : q \in DOMAIN d}
    \cup (IF t = <<>> THEN {} ELSE {<<TEXTNAME>>})
    \cup {<<TEXTNAME>> \o x : x \in DOMAIN t}

GlobText(t) == {<<TEXTNAME>> \o x : x \in DOMAIN t}

\* rescan_all: the pathlist
PathList(d, t) == (GlobData(d, t) \ GlobText(t)) \ {<<TEXTNAME>>}

\* where get_content returns to
AfterContent == IF mode = "import" THEN "copy" ELSE "write"

\* an exception leaves the command: the process ends, a TemporaryDirectory is removed
Raise(err) ==
    /\ pc' = "idle"
    /\ status' = err
    /\ queue' = <<>>
    /\ todo' = {}
    /\ cur' = NoFile
    /\ content' = <<>>
    /\ target' = <<>>
    /\ pre' = NoSnap
    /\ tmpExists' = FALSE
    /\ tmpFiles' = <<>>
    /\ ocrIdx' = 0

----------------------------------------------------------------------------
(* Initial state: Config.setup has run on a fresh or hand-filled archive *)

Init ==
    /\ docs \in InitialArchives
    /\ texts = setup(InitialCache(docs))
    /\ pc = "idle"
    /\ mode = "none"
    /\ queue = <<>>
    /\ cur = NoFile
    /\ content = <<>>
    /\ target = <<>>
    /\ todo = {}
    /\ skipped = {}
    /\ status = "ready"
    /\ tmpExists = FALSE
    /\ tmpFiles = <<>>
    /\ ocrIdx = 0
    /\ ocrExit = 0
    /\ answer = "none"
    /\ pre = NoSnap
    /\ pin = <<>>
    /\ pout = <<>>
    /\ pback = <<>>
    /\ pstage = "off"

----------------------------------------------------------------------------
(* import *)

\* the files that can be named on the command line
Inputs ==
    ExternalFiles
    \cup {[name |-> p[1], c |-> docs[p], root |-> TRUE] : p \in {q \in DOMAIN docs : Len(q) = 1}}

\* the tuples file_paths: any one file, or several files from outside the archive
Batches ==
    {<<f>> : f \in Inputs} \cup UNION {[1..k -> ExternalFiles] : k \in 2..MaxBatch}

\* cli() then _import: setup, then import_files starts on file_paths
ImportCmd ==
    /\ pc = "idle"
    /\ Cardinality(DOMAIN docs) < MaxDocs
    /\ \E batch \in Batches : queue' = batch
    /\ texts' = setup(texts)
    /\ mode' = "import"
    /\ pc' = "loop"
    /\ status' = "running"
    /\ skipped' = {}
    /\ ocrExit' = 0
    /\ answer' = "none"
    /\ UNCHANGED <<docs, cur, content, target, todo, tmpExists, tmpFiles, ocrIdx, pre>>
    /\ UNCHANGED pathVars

\* import_files: the for loop takes the next path
LoopNext ==
    /\ pc = "loop"
    /\ queue # <<>>
    /\ cur' = Head(queue)
    /\ queue' = Tail(queue)
    /\ pre' = [docs |-> docs, texts |-> texts]
    /\ pc' = "check"
    /\ UNCHANGED <<docs, texts, mode, content, target, todo, skipped, status,
                   tmpExists, tmpFiles, ocrIdx, ocrExit, answer>>
    /\ UNCHANGED pathVars

\* import_files: the for loop is over, the command returns
LoopDone ==
    /\ pc = "loop"
    /\ queue = <<>>
    /\ pc' = "idle"
    /\ status' = "done"
    /\ cur' = NoFile
    /\ pre' = NoSnap
    /\ UNCHANGED <<docs, texts, mode, queue, content, target, todo, skipped,
                   tmpExists, tmpFiles, ocrIdx, ocrExit, answer>>
    /\ UNCHANGED pathVars

\* is_not_imported returns True
CheckNew ==
    /\ pc = "check"
    /\ is_not_imported(texts[LEDGER], cur.c)
    /\ pc' = "extract"
    /\ UNCHANGED <<docs, texts, mode, queue, cur, content, target, todo, skipped,
                   status, tmpExists, tmpFiles, ocrIdx, ocrExit, answer, pre>>
    /\ UNCHANGED pathVars

\* is_not_imported returns False: echo and go on with the next path
CheckSkip ==
    /\ pc = "check"
    /\ ~is_not_imported(texts[LEDGER], cur.c)
    /\ skipped' = skipped \cup {cur}
    /\ pc' = "loop"
    /\ UNCHANGED <<docs, texts, mode, queue, cur, content, target, todo,
                   status, tmpExists, tmpFiles, ocrIdx, ocrExit, answer, pre>>
    /\ UNCHANGED pathVars

\* is_not_imported: the file cannot be opened for hashing
CheckFail ==
    /\ pc = "check"
    /\ Raise("OSError")
    /\ UNCHANGED <<docs, texts, mode, skipped, ocrExit, answer>>
    /\ UNCHANGED pathVars

----------------------------------------------------------------------------
(* get_content, shared by import and rescan_all *)

\* text/plain: the file is read verbatim
GetTxt ==
    /\ pc = "extract"
    /\ MimeOf(cur.c) = "text/plain"
    /\ content' = get_txt_content(cur.c)
    /\ pc' = AfterContent
    /\ UNCHANGED <<docs, texts, mode, queue, cur, target, todo, skipped, status,
                   tmpExists, tmpFiles, ocrIdx, ocrExit, answer, pre>>
    /\ UNCHANGED pathVars

\* image/png, image/jpeg: one tesseract run on the file itself
GetImage ==
    /\ pc = "extract"
    /\ MimeOf(cur.c) \in {"image/png", "image/jpeg"}
    /\ \E exit \in {0, 1} :
         LET r == run_tesseract(cur.c, exit)
         IN  /\ ocrExit' = exit
             /\ IF r.raised
                THEN /\ Raise("CalledProcessError")
                     /\ UNCHANGED <<docs, texts, mode, skipped, answer>>
                ELSE /\ content' = r.out
                     /\ pc' = AfterContent
                     /\ UNCHANGED <<docs, texts, mode, queue, cur, target, todo,
                                    skipped, status, tmpExists, tmpFiles, ocrIdx,
                                    answer, pre>>
    /\ UNCHANGED pathVars

\* any other mime type: empty content, the import goes on
GetUnknown ==
    /\ pc = "extract"
    /\ MimeOf(cur.c) \notin {"text/plain", "application/pdf", "image/png", "image/jpeg"}
    /\ content' = <<>>
    /\ pc' = AfterContent
    /\ UNCHANGED <<docs, texts, mode, queue, cur, target, todo, skipped, status,
                   tmpExists, tmpFiles, ocrIdx, ocrExit, answer, pre>>
    /\ UNCHANGED pathVars

\* magic.from_file or the read of the text file fails
GetFail ==
    /\ pc = "extract"
    /\ Raise("OSError")
    /\ UNCHANGED <<docs, texts, mode, skipped, ocrExit, answer>>
    /\ UNCHANGED pathVars

\* application/pdf: process_pdf enters the TemporaryDirectory
PdfEnter ==
    /\ pc = "extract"
    /\ MimeOf(cur.c) = "application/pdf"
    /\ tmpExists' = TRUE
    /\ tmpFiles' = <<>>
    /\ ocrIdx' = 0
    /\ pc' = "pdf_convert"
    /\ UNCHANGED <<docs, texts, mode, queue, cur, content, target, todo, skipped,
                   status, ocrExit, answer, pre>>
    /\ UNCHANGED pathVars

\* convert_pdf_to_images: the next page image output_<num>.jpg is saved
PdfSave ==
    /\ pc = "pdf_convert"
    /\ Len(tmpFiles) < Len(convert_from_path(cur.c))
    /\ tmpFiles' = Append(tmpFiles, convert_from_path(cur.c)[Len(tmpFiles) + 1])
    /\ UNCHANGED <<docs, texts, pc, mode, queue, cur, content, target, todo, skipped,
                   status, tmpExists, ocrIdx, ocrExit, answer, pre>>
    /\ UNCHANGED pathVars

\* convert_pdf_to_images returns the paths: content = '' and the OCR loop starts
PdfConverted ==
    /\ pc = "pdf_convert"
    /\ Len(tmpFiles) = Len(convert_from_path(cur.c))
    /\ content' = <<>>
    /\ pc' = "pdf_ocr"
    /\ UNCHANGED <<docs, texts, mode, queue, cur, target, todo, skipped,
                   status, tmpExists, tmpFiles, ocrIdx, ocrExit, answer, pre>>
    /\ UNCHANGED pathVars

\* pdf2image fails (no poppler, broken file, save error)
PdfConvertFail ==
    /\ pc = "pdf_convert"
    /\ Raise("PDFError")
    /\ UNCHANGED <<docs, texts, mode, skipped, ocrExit, answer>>
    /\ UNCHANGED pathVars

\* process_pdf with content = run_tesseract(...) + content
PdfOcrPrepend ==
    /\ pc = "pdf_ocr"
    /\ ocrIdx < Len(tmpFiles)
    /\ \E exit \in {0, 1} :
         LET r == run_tesseract(tmpFiles[ocrIdx + 1], exit)
         IN  /\ ocrExit' = exit
             /\ IF r.raised
                THEN /\ Raise("CalledProcessError")
                     /\ UNCHANGED <<docs, texts, mode, skipped, answer>>
                ELSE /\ content' = r.out \o content
                     /\ ocrIdx' = ocrIdx + 1
                     /\ UNCHANGED <<docs, texts, pc, mode, queue, cur, target, todo,
                                    skipped, status, tmpExists, tmpFiles, answer, pre>>
    /\ UNCHANGED pathVars

\* process_pdf: one tesseract run on the next page image
PdfOcr ==
    /\ pc = "pdf_ocr"
    /\ ocrIdx < Len(tmpFiles)
    /\ \E exit \in {0, 1} :
         LET r == run_tesseract(tmpFiles[ocrIdx + 1], exit)
         IN  /\ ocrExit' = exit
             /\ IF r.raised
                THEN /\ Raise("CalledProcessError")
                     /\ UNCHANGED <<docs, texts, mode, skipped, answer>>
                ELSE /\ content' = content \o r.out
                     /\ ocrIdx' = ocrIdx + 1
                     /\ UNCHANGED <<docs, texts, pc, mode, queue, cur, target, todo,
                                    skipped, status, tmpExists, tmpFiles, answer, pre>>
    /\ UNCHANGED pathVars

\* process_pdf on tempfile.mkdtemp(): the directory is left behind on return
PdfExitLeak ==
    /\ pc = "pdf_ocr"
    /\ ocrIdx = Len(tmpFiles)
    /\ ocrIdx' = 0
    /\ pc' = AfterContent
    /\ UNCHANGED <<docs, texts, mode, queue, cur, content, target, todo, skipped,
                   status, tmpExists, tmpFiles, ocrExit, answer, pre>>
    /\ UNCHANGED pathVars

\* process_pdf: the with block is left, the TemporaryDirectory is removed
PdfExit ==
    /\ pc = "pdf_ocr"
    /\ ocrIdx = Len(tmpFiles)
    /\ tmpExists' = FALSE
    /\ tmpFiles' = <<>>
    /\ ocrIdx' = 0
    /\ pc' = AfterContent
    /\ UNCHANGED <<docs, texts, mode, queue, cur, content, target, todo, skipped,
                   status, ocrExit, answer, pre>>
    /\ UNCHANGED pathVars

----------------------------------------------------------------------------
(* import_file *)

\* the while loop picks the destination, shutil.copy writes it
Copy ==
    /\ pc = "copy"
    /\ LET file_name == Destination(docs, texts, cur.name)
       IN  /\ docs' = (<<file_name>> :> cur.c) @@ docs
           /\ target' = <<file_name>>
    /\ pc' = "write"
    /\ UNCHANGED <<texts, mode, queue, cur, content, todo, skipped, status,
                   tmpExists, tmpFiles, ocrIdx, ocrExit, answer, pre>>
    /\ UNCHANGED pathVars

\* shutil.copy cannot create the destination
CopyFail ==
    /\ pc = "copy"
    /\ Raise("OSError")
    /\ UNCHANGED <<docs, texts, mode, skipped, ocrExit, answer>>
    /\ UNCHANGED pathVars

\* write_content_for_file: the text lands in text_dir / (name + '.txt')
WriteContent ==
    /\ pc = "write"
    /\ texts' = (TextPathFor(target) :> content) @@ texts
    /\ pc' = IF mode = "import" THEN "append" ELSE "rloop"
    /\ UNCHANGED <<docs, mode, queue, cur, content, target, todo, skipped, status,
                   tmpExists, tmpFiles, ocrIdx, ocrExit, answer, pre>>
    /\ UNCHANGED pathVars

\* write_content_for_file cannot open the text file
WriteFail ==
    /\ pc = "write"
    /\ Raise("OSError")
    /\ UNCHANGED <<docs, texts, mode, skipped, ocrExit, answer>>
    /\ UNCHANGED pathVars

\* add_md5sum(config, file_name): file_name is the str built by import_file
AddMd5sum ==
    /\ pc = "append"
    /\ LET r == add_md5sum(texts[LEDGER], StrArg(Name(target)))
       IN  IF r.raised
           THEN /\ Raise("AttributeError")
                /\ UNCHANGED <<docs, texts, mode, skipped, ocrExit, answer>>
           ELSE /\ texts' = [texts EXCEPT ![LEDGER] = r.lines]
                /\ pc' = "loop"
                /\ UNCHANGED <<docs, mode, queue, cur, content, target, todo, skipped,
                               status, tmpExists, tmpFiles, ocrIdx, ocrExit, answer, pre>>
    /\ UNCHANGED pathVars

----------------------------------------------------------------------------
(* rescan_all *)

\* cli() then rescan_all: setup, then the confirmation prompt
RescanCmd ==
    /\ pc = "idle"
    /\ texts' = setup(texts)
    /\ mode' = "rescan"
    /\ pc' = "confirm"
    /\ status' = "running"
    /\ skipped' = {}
    /\ ocrExit' = 0
    /\ answer' = "none"
    /\ UNCHANGED <<docs, queue, cur, content, target, todo, tmpExists, tmpFiles,
                   ocrIdx, pre>>
    /\ UNCHANGED pathVars

\* click.confirm returns; exit(0) unless the answer was yes
Confirm ==
    /\ pc = "confirm"
    /\ \E ans \in Answers :
         /\ answer' = ans
         /\ IF proceeds(ans)
            THEN pc' = "rmtree" /\ status' = status
            ELSE pc' = "idle" /\ status' = "declined"
    /\ UNCHANGED <<docs, texts, mode, queue, cur, content, target, todo, skipped,
                   tmpExists, tmpFiles, ocrIdx, ocrExit, pre>>
    /\ UNCHANGED pathVars

\* rescan_all without the rmtree: the text cache is left as it is
RmtreeSkipped ==
    /\ pc = "rmtree"
    /\ pc' = "setup"
    /\ UNCHANGED <<docs, texts, mode, queue, cur, content, target, todo, skipped,
                   status, tmpExists, tmpFiles, ocrIdx, ocrExit, answer, pre>>
    /\ UNCHANGED pathVars

\* shutil.rmtree(config.text_dir): the text cache and the ledger are gone
Rmtree ==
    /\ pc = "rmtree"
    /\ texts' = <<>>
    /\ pc' = "setup"
    /\ UNCHANGED <<docs, mode, queue, cur, content, target, todo, skipped, status,
                   tmpExists, tmpFiles, ocrIdx, ocrExit, answer, pre>>
    /\ UNCHANGED pathVars

\* config.setup(): the folder and an empty ledger are recreated; then the glob
SetupAgain ==
    /\ pc = "setup"
    /\ texts' = setup(texts)
    /\ todo' = PathList(docs, texts')
    /\ pc' = "rloop"
    /\ UNCHANGED <<docs, mode, queue, cur, content, target, skipped, status,
                   tmpExists, tmpFiles, ocrIdx, ocrExit, answer, pre>>
    /\ UNCHANGED pathVars

\* the for loop takes some path of the set; directories are passed over
RescanNext ==
    /\ pc = "rloop"
    /\ \E file_path \in todo :
         /\ todo' = todo \ {file_path}
         /\ IF file_path \in DOMAIN docs
            THEN /\ cur' = [name |-> Name(file_path), c |-> docs[file_path],
                            root |-> Len(file_path) = 1]
                 /\ target' = file_path
                 /\ pc' = "extract"
            ELSE UNCHANGED <<cur, target, pc>>
    /\ UNCHANGED <<docs, texts, mode, queue, content, skipped, status,
                   tmpExists, tmpFiles, ocrIdx, ocrExit, answer, pre>>
    /\ UNCHANGED pathVars

\* the for loop is over, the command returns
RescanDone ==
    /\ pc = "rloop"
    /\ todo = {}
    /\ pc' = "idle"
    /\ status' = "rescanned"
    /\ cur' = NoFile
    /\ content' = <<>>
    /\ target' = <<>>
    /\ UNCHANGED <<docs, texts, mode, queue, todo, skipped,
                   tmpExists, tmpFiles, ocrIdx, ocrExit, answer, pre>>
    /\ UNCHANGED pathVars

----------------------------------------------------------------------------

Next ==
    \/ ImportCmd
    \/ LoopNext
    \/ LoopDone
    \/ CheckNew
    \/ CheckSkip
    \/ CheckFail
    \/ GetTxt
    \/ GetImage
    \/ GetUnknown
    \/ GetFail
    \/ PdfEnter
    \/ PdfSave
    \/ PdfConverted
    \/ PdfConvertFail
    \/ PdfOcr
    \/ PdfExit
    \/ Copy
    \/ CopyFail
    \/ WriteContent
    \/ WriteFail
    \/ AddMd5sum
    \/ RescanCmd
    \/ Confirm
    \/ Rmtree
    \/ SetupAgain
    \/ RescanNext
    \/ RescanDone

Spec == Init /\ [][Next]_vars

----------------------------------------------------------------------------
(* The path mappings of the search layer, applied to drawn paths *)

\* text_file_path_to_doc_path: Path(textfilepath.name).with_suffix('')
text_file_path_to_doc_path(textfilepath) == <<WithSuffixEmpty(Name(textfilepath))>>

\* docpath_to_textfilepath: Path.joinpath(text_dir, f'{docfilepath}.txt')
docpath_to_textfilepath(docfilepath) ==
    JoinPath(text_dir, PathPlus(docfilepath, text_suffix))

NameChars == {"a", DOT}

\* file names of up to MaxNameLen characters; "." and ".." are not file names
PathNames ==
    UNION {[1..k -> NameChars] : k \in 1..MaxNameLen} \ {<<DOT>>, <<DOT, DOT>>}

\* document paths relative to the archive root
RelDocPaths == UNION {[1..k -> PathNames] : k \in 1..MaxPathLen}

\* document paths, as the search layer names them: relative to the archive root
DocPaths == RelDocPaths

\* text-artifact paths below the text cache
TextPaths == {text_dir \o PathPlus(d, text_suffix) : d \in RelDocPaths}

InitPaths ==
    /\ docs = <<>>
    /\ texts = setup(<<>>)
    /\ pc = "idle"
    /\ mode = "none"
    /\ queue = <<>>
    /\ cur = NoFile
    /\ content = <<>>
    /\ target = <<>>
    /\ todo = {}
    /\ skipped = {}
    /\ status = "ready"
    /\ tmpExists = FALSE
    /\ tmpFiles = <<>>
    /\ ocrIdx = 0
    /\ ocrExit = 0
    /\ answer = "none"
    /\ pre = NoSnap
    /\ \/ pstage = "doc" /\ pin \in DocPaths
       \/ pstage = "text" /\ pin \in TextPaths
    /\ pout = <<>>
    /\ pback = <<>>

MapDoc ==
    /\ pstage = "doc"
    /\ pout' = docpath_to_textfilepath(pin)
    /\ pstage' = "doc_text"
    /\ UNCHANGED <<pin, pback>>
    /\ UNCHANGED pipeVars

MapDocBack ==
    /\ pstage = "doc_text"
    /\ pback' = text_file_path_to_doc_path(pout)
    /\ pstage' = "doc_done"
    /\ UNCHANGED <<pin, pout>>
    /\ UNCHANGED pipeVars

MapText ==
    /\ pstage = "text"
    /\ pout' = text_file_path_to_doc_path(pin)
    /\ pstage' = "text_doc"
    /\ UNCHANGED <<pin, pback>>
    /\ UNCHANGED pipeVars

MapTextBack ==
    /\ pstage = "text_doc"
    /\ pback' = docpath_to_textfilepath(pout)
    /\ pstage' = "text_done"
    /\ UNCHANGED <<pin, pout>>
    /\ UNCHANGED pipeVars

NextPaths ==
    \/ MapDoc
    \/ MapDocBack
    \/ MapText
    \/ MapTextBack

SpecPaths == InitPaths /\ [][NextPaths]_vars

----------------------------------------------------------------------------
(* Properties *)

RootDocs == {p \in DOMAIN docs : Len(p) = 1}

Ledger(t) == t[LEDGER]

\* a step in which an exception ends the running import
ImportFails == mode = "import" /\ pc # "idle" /\ pc' = "idle" /\ status' # "done"

\* "a_1.t"
NA1 == <<"a", "_", "1", ".", "t">>

\* C1: importing the same content twice leaves one archived copy of it and one
\* ledger line for it.
C1_ImportIdempotent ==
    \A c \in Contents :
        /\ Cardinality({p \in RootDocs : docs[p] = c}) <= 1
        /\ LEDGER \in DOMAIN texts =>
             Cardinality({i \in 1..Len(Ledger(texts)) : Ledger(texts)[i] = hexdigest(c)}) <= 1

\* C2: the copy of import_file goes to a path that did not exist (the original
\* name when that is free), it keeps every archived document as it was, and the
\* text of the new document goes to an artifact no other document of the
\* archive root has.
C2_CollisionSafeCopy ==
    [][/\ (pc = "copy" /\ pc' = "write") =>
            /\ target' \notin DOMAIN docs
            /\ ~IsDir(docs, target')
            /\ (<<cur.name>> \notin DOMAIN docs /\ ~IsDir(docs, <<cur.name>>)
                  /\ cur.name # TEXTNAME => target' = <<cur.name>>)
            /\ docs' = (target' :> cur.c) @@ docs
            /\ \A p \in DOMAIN docs : docs'[p] = docs[p]
       /\ (pc = "write" /\ mode = "import" /\ pc' = "append") =>
            /\ texts'[TextPathFor(target)] = content
            /\ \A p \in RootDocs \ {target} : TextPathFor(p) # TextPathFor(target)
            /\ \A x \in DOMAIN texts \ {TextPathFor(target)} :
                  x \in DOMAIN texts' /\ texts'[x] = texts[x]
      ]_vars

\* C2 witness: two different files named a.t are both in the archive, the second
\* as a_1.t, each with its own text.
C2_Witness ==
    /\ <<NA>> \in DOMAIN docs
    /\ <<NA1>> \in DOMAIN docs
    /\ docs[<<NA>>] # docs[<<NA1>>]
    /\ TextPathFor(<<NA>>) \in DOMAIN texts
    /\ TextPathFor(<<NA1>>) \in DOMAIN texts
    /\ texts[TextPathFor(<<NA>>)] = get_txt_content(docs[<<NA>>])
    /\ texts[TextPathFor(<<NA1>>)] = get_txt_content(docs[<<NA1>>])

\* C3: during an import the archive changes only in the copy step, the text
\* cache only afterwards, and the ledger only once the copy and its text
\* artifact exist; when a step before the ledger append fails, the ledger is as
\* it was when the file was taken up and the file still counts as not imported.
C3_LedgerCommitLast ==
    [][mode' = "import" =>
        /\ (docs' # docs => pc = "copy" /\ texts' = texts)
        /\ (texts' # texts => pc \in {"write", "append"} /\ target \in DOMAIN docs)
        /\ (Ledger(texts') # Ledger(texts) =>
              /\ pc \in {"write", "append"}
              /\ target' \in DOMAIN docs'
              /\ TextPathFor(target') \in DOMAIN texts')
        /\ (ImportFails /\ pc # "append" =>
              /\ Ledger(texts') = Ledger(pre.texts)
              /\ (pc # "check" => is_not_imported(Ledger(texts'), cur.c)))
      ]_vars

\* C3 witness: an import failed in the text write, after the copy: the document
\* is in the archive without text, and its content is still not imported.
C3_Witness ==
    /\ pc = "idle"
    /\ mode = "import"
    /\ status = "OSError"
    /\ \E p \in RootDocs :
         /\ TextPathFor(p) \notin DOMAIN texts
         /\ is_not_imported(Ledger(texts), docs[p])

\* C4: once tesseract has exited non-zero during an import, the import of that
\* file is over with the archive, the text cache and the ledger as they were
\* when the file was taken up, and the file still counts as not imported.
C4_OcrFailureClean ==
    [][(mode' = "import" /\ ocrExit' # 0) =>
        /\ pc' = "idle"
        /\ status' = "CalledProcessError"
        /\ (pc # "idle" =>
              /\ docs' = pre.docs
              /\ texts' = pre.texts
              /\ is_not_imported(Ledger(texts'), cur.c))
        /\ (pc = "idle" => docs' = docs /\ texts' = texts)
      ]_vars

\* C4 witness: an import ended in a failed tesseract run while the archive
\* holds neither the image nor the PDF.
C4_Witness ==
    /\ pc = "idle"
    /\ mode = "import"
    /\ ocrExit # 0
    /\ status = "CalledProcessError"
    /\ \A p \in DOMAIN docs : docs[p] \notin {"P1", "D1"}

\* C5: when the import of one path fails while paths are left in the batch,
\* the loop goes on with those paths.
C5_BatchContinues ==
    [][(ImportFails /\ queue # <<>>) => (pc' = "loop" /\ queue' = queue)]_vars

\* C6: after a completed rescan_all every document has its text artifact and
\* no two documents share one.
C6_OneToOne ==
    (pc = "idle" /\ status = "rescanned") =>
        /\ \A p \in DOMAIN docs : TextPathFor(p) \in DOMAIN texts
        /\ \A p, q \in DOMAIN docs : p # q => TextPathFor(p) # TextPathFor(q)

\* C7: write_content_for_file stores the text of a document at the document's
\* path relative to the archive root plus ".txt", below the text cache.
C7_MirrorPath ==
    [][(pc = "write" /\ texts' # texts) =>
          texts' = (PathPlus(target, text_suffix) :> content) @@ texts]_vars

\* C8: mapping a document path to its text-artifact path and back, or a
\* text-artifact path to its document path and back, returns the path.
C8_RoundTrip ==
    pstage \in {"doc_done", "text_done"} => pback = pin

\* C9: no step of import or rescan_all removes, renames or changes a document
\* of the archive; rescan_all leaves the set of documents alone.
C9_DocsImmutable ==
    [][/\ \A p \in DOMAIN docs : p \in DOMAIN docs' /\ docs'[p] = docs[p]
       /\ (mode' = "rescan" => docs' = docs)]_vars

\* C9 witness: a confirmed rescan has completed over an archive into which two
\* files named a.t were imported.
C9_Witness ==
    /\ pc = "idle"
    /\ status = "rescanned"
    /\ <<NA>> \in DOMAIN docs
    /\ <<NA1>> \in DOMAIN docs
    /\ docs[<<NA>>] # docs[<<NA1>>]

\* C10: from the start of rescan_all up to and after a prompt answered with no
\* or with the bare return key, documents, text artifacts and ledger stay as
\* they are and the command ends.
C10_DeclinedRescan ==
    [][(mode' = "rescan" /\ (answer' \in {"no", ""} \/ pc \in {"idle", "confirm"})) =>
        /\ docs' = docs
        /\ texts' = texts
        /\ (answer' \in {"no", ""} => pc' = "idle" /\ status' = "declined")
      ]_vars

\* C10 witness: a rescan was declined while the text cache held an artifact.
C10_Witness ==
    /\ pc = "idle"
    /\ mode = "rescan"
    /\ answer \in {"no", ""}
    /\ status = "declined"
    /\ \E x \in DOMAIN texts : x # LEDGER /\ texts[x] # <<>>

Supported == {"text/plain", "application/pdf", "image/png", "image/jpeg"}

\* C11: the import of a file of an unsupported mime type does not fail: once
\* the copy and the empty text artifact are written, the append step adds the
\* digest of the file to the ledger and the loop goes on.
C11_UnsupportedImported ==
    [][(mode = "import" /\ pc = "append" /\ MimeOf(cur.c) \notin Supported) =>
        /\ pc' = "loop"
        /\ target \in DOMAIN docs'
        /\ texts'[TextPathFor(target)] = <<>>
        /\ hexdigest(cur.c) \in Range(Ledger(texts'))
      ]_vars

\* C12: the copy step of an import whose source is the file of that name in the
\* archive root creates no document: the archive is as before and the
\* destination is the source.
C12_SameFileNoop ==
    [][(pc = "copy" /\ pc' = "write" /\ cur.root) =>
        /\ docs' = docs
        /\ target' = <<cur.name>>
      ]_vars

\* C13: the append step of import_file adds exactly one line to the ledger, the
\* digest of the imported file, after which the file counts as imported.
C13_LedgerRecordsDigest ==
    [][(mode = "import" /\ pc = "append") =>
        /\ pc' = "loop"
        /\ Ledger(texts') = Append(Ledger(texts), hexdigest(cur.c))
        /\ ~is_not_imported(Ledger(texts'), cur.c)
      ]_vars

\* C14: no step of import or rescan_all takes a line out of the ledger: every
\* fingerprint in the ledger before a step is in the ledger after it.
C14_LedgerAppendOnly ==
    [][(LEDGER \in DOMAIN texts) =>
          (\A d \in Range(Ledger(texts)) :
              LEDGER \in DOMAIN texts' /\ d \in Range(Ledger(texts')))
      ]_vars

\* the text get_content returns for a file when every tesseract run succeeds
TextOf(c) ==
    CASE MimeOf(c) = "text/plain" -> get_txt_content(c)
      [] MimeOf(c) \in {"image/png", "image/jpeg"} -> <<tesseract_stdout(c)>>
      [] MimeOf(c) = "application/pdf" ->
           [i \in 1..Len(convert_from_path(c)) |-> tesseract_stdout(convert_from_path(c)[i])]
      [] OTHER -> <<>>

\* C15: after a completed rescan_all the text cache holds the ledger and the
\* artifacts of the documents of the archive and nothing else, and every
\* artifact holds the text of a document it belongs to; nothing is derived
\* from the ledger or from an artifact, nothing is left from before.
C15_RescanRebuilds ==
    (pc = "idle" /\ status = "rescanned") =>
        /\ DOMAIN texts = {LEDGER} \cup {TextPathFor(p) : p \in DOMAIN docs}
        /\ \A x \in DOMAIN texts :
              \/ x = LEDGER /\ texts[x] = <<>>
              \/ \E p \in DOMAIN docs :
                    TextPathFor(p) = x /\ texts[x] = TextOf(docs[p])

\* C15 witness: a rescan has completed over the hand-filled archive, whose cache
\* held the artifact of a removed document, and over an imported PDF.
C15_Witness ==
    /\ pc = "idle"
    /\ status = "rescanned"
    /\ <<SUB, NA>> \in DOMAIN docs
    /\ STALE \notin DOMAIN texts
    /\ \E p \in DOMAIN docs : docs[p] = "D1"

\* the name n with "_k" put before all of its extensions
NumberedName(n, k) ==
    SubSeq(n, 1, Len(n) - Len(JoinedSuffixes(n))) \o <<"_">> \o Dec(k) \o JoinedSuffixes(n)

\* C16: when the base name is taken, import_file stores the copy under the name
\* with "_k" before the extension(s), k the least positive integer for which
\* that name is free.
C16_CollisionName ==
    [][(pc = "copy" /\ pc' = "write" /\ Exists(docs, texts, cur.name)) =>
          (\E k \in 1..(Cardinality(DOMAIN docs) + 1) :
              /\ target' = <<NumberedName(cur.name, k)>>
              /\ ~Exists(docs, texts, NumberedName(cur.name, k))
              /\ \A j \in 1..(k - 1) : Exists(docs, texts, NumberedName(cur.name, j)))
      ]_vars

InPdf == pc \in {"pdf_convert", "pdf_ocr"}

\* C17: the temporary directory of process_pdf exists exactly while the call
\* runs: outside process_pdf, after a return or an exception, there is no
\* temporary directory and no page image.
C17_ScopedWorkspace ==
    /\ tmpExists <=> InPdf
    /\ ~InPdf => tmpFiles = <<>>

\* C17 witness: process_pdf was left by an exception of the rasterizer and the
\* temporary directory is gone.
C17_Witness ==
    /\ pc = "idle"
    /\ status = "PDFError"
    /\ ~tmpExists
    /\ tmpFiles = <<>>

\* C18: while pages are saved no tesseract run has happened and the images are
\* the first pages in order; during the OCR loop all page images are there and
\* the content is the output for pages 1..ocrIdx in page order; the text a PDF
\* is archived with is the output of all pages in page order.
C18_PageOrder ==
    LET pages == convert_from_path(cur.c)
    IN  /\ pc = "pdf_convert" =>
              /\ ocrIdx = 0
              /\ Len(tmpFiles) <= Len(pages)
              /\ tmpFiles = SubSeq(pages, 1, Len(tmpFiles))
        /\ pc = "pdf_ocr" =>
              /\ tmpFiles = pages
              /\ ocrIdx <= Len(pages)
              /\ content = [i \in 1..ocrIdx |-> tesseract_stdout(pages[i])]
        /\ (pc \in {"copy", "write", "append"} /\ MimeOf(cur.c) = "application/pdf") =>
              content = TextOf(cur.c)

\* C18 witness: the two-page PDF is about to be copied in with the text of
\* page 1 followed by the text of page 2.
C18_Witness ==
    /\ pc = "copy"
    /\ cur.c = "D1"
    /\ content = <<"ocr of D1.page0", "ocr of D1.page1">>

====
